---- MODULE Spec2Model ----
(***************************************************************************)
(* Model of app/parse.py: a Selenium scraper that walks a fixed set of     *)
(* catalog sections, extracts every product card of each listing, visits   *)
(* the product detail page of every card that links to one to read the     *)
(* per-variant ("hdd") prices, and writes one CSV file per section.        *)
(*                                                                         *)
(* The program is sequential.  Its state is the position in the code (pc), *)
(* the local variables of the active calls, and the one browser session    *)
(* (current page, cookie banner, displayed price).  What the browser       *)
(* shows is the environment: it is drawn with \E from small catalogues of  *)
(* cards and detail pages.  The content of a card is drawn when the        *)
(* program first reads the card and is kept from then on: a listing only   *)
(* ever grows at its end, so reading a card again gives the same content.  *)
(***************************************************************************)
EXTENDS Integers, Sequences, FiniteSets, TLC

VARIABLES
    pc,          \* position in the code
    driver,      \* the webdriver.Chrome() session: "none", "open", "quit"
    cur,         \* page the session shows: [kind, id]
    listing,     \* DOM of the listing page last loaded
    banner,      \* state of #cookieBanner on the current page
    shown,       \* the .price element of the current detail page
    lastOp,      \* last operation issued on the session
    sec,         \* index of the section get_all_products is at
    visited,     \* sections whose scrape_page call has started
    completed,   \* sections whose scrape_page call has returned
    sink,        \* CSV files written so far, in order
    products,    \* scrape_page: products
    page_soup,   \* scrape_page: the snapshot, as the positions of its cards
    batch,       \* get_single_page_products: records of the current pass
    idx,         \* get_single_page_products: card being parsed
    hdd_prices,  \* parse_single_product: result of parse_hdd_block_prices
    prices,      \* parse_hdd_block_prices: prices
    bi,          \* parse_hdd_block_prices: button being handled
    ret,         \* close_cookie_banner: where it returns to
    err          \* the exception that is propagating, if any

vars == <<pc, driver, cur, listing, banner, shown, lastOp, sec, visited,
          completed, sink, products, page_soup, batch, idx, hdd_prices,
          prices, bi, ret, err>>

(***************************************************************************)
(* Bounds of the model.                                                    *)
(***************************************************************************)
NumSections == 2     \* sections of PRODUCT_PAGES that are traversed
MaxInit == 3         \* cards a listing shows after the initial load
MaxK == 2            \* cards one activation of the reveal control appends
MaxReveals == 1      \* activations after which the reveal control is gone

SectionNames == <<"home", "computers", "laptops", "tablets", "phones", "touch">>

(***************************************************************************)
(* Text and the conversions applied to it.  A text is a sequence of        *)
(* one-character strings.                                                  *)
(***************************************************************************)
Digits == {"0", "1", "2", "3", "4", "5", "6", "7", "8", "9"}

DigitVal(c) ==
    CASE c = "0" -> 0 [] c = "1" -> 1 [] c = "2" -> 2 [] c = "3" -> 3
      [] c = "4" -> 4 [] c = "5" -> 5 [] c = "6" -> 6 [] c = "7" -> 7
      [] c = "8" -> 8 [] c = "9" -> 9

\* str.replace(ch, ""): every occurrence of ch removed
Replace(text, ch) == SelectSeq(text, LAMBDA c : c # ch)

RECURSIVE LStrip(_)
LStrip(text) ==
    IF text # <<>> /\ Head(text) = " " THEN LStrip(Tail(text)) ELSE text

RECURSIVE RStrip(_)
RStrip(text) ==
    IF text # <<>> /\ text[Len(text)] = " "
    THEN RStrip(SubSeq(text, 1, Len(text) - 1)) ELSE text

RECURSIVE UpToSpace(_)
UpToSpace(text) ==
    IF text = <<>> \/ Head(text) = " " THEN <<>>
    ELSE <<Head(text)>> \o UpToSpace(Tail(text))

\* str.split(): does it have a first token, and which
HasToken(text) == LStrip(text) # <<>>
FirstToken(text) == UpToSpace(LStrip(text))

\* int(s) and float(s) accept surrounding blanks and then want digits
IsNumeric(text) ==
    LET t == RStrip(LStrip(text))
    IN  t # <<>> /\ \A i \in 1..Len(t) : t[i] \in Digits

RECURSIVE DigitsValue(_)
DigitsValue(t) ==
    IF t = <<>> THEN 0
    ELSE 10 * DigitsValue(SubSeq(t, 1, Len(t) - 1)) + DigitVal(t[Len(t)])

Number(text) == DigitsValue(RStrip(LStrip(text)))

(***************************************************************************)
(* DOM elements: present with a text, or absent (select_one gives None,    *)
(* find_element raises NoSuchElementException).                            *)
(***************************************************************************)
Elem(text) == [present |-> TRUE, text |-> text]
NoElem == [present |-> FALSE, text |-> <<>>]

EmptyMap == [k \in {} |-> 0]

(***************************************************************************)
(* The detail pages a card can link to.  A variant button carries its      *)
(* value property, its disabled property and the price the page displays   *)
(* once it is activated.                                                   *)
(***************************************************************************)
Button(v, d, p) == [value |-> v, disabled |-> d, price |-> p]

DetailPages == <<
    \* 1: no variant-selector block
    [swatches |-> FALSE, buttons |-> <<>>, price |-> Elem(<<"$", "9">>)],
    \* 2: two enabled variants and one disabled
    [swatches |-> TRUE,
     buttons |-> << Button("128", FALSE, Elem(<<"$", "1", "0">>)),
                    Button("256", TRUE, Elem(<<"$", "1", "1">>)),
                    Button("512", FALSE, Elem(<<"$", "1", "2">>)) >>,
     price |-> Elem(<<"$", "1", "0">>)],
    \* 3: a variant-selector block whose only variant is disabled
    [swatches |-> TRUE,
     buttons |-> << Button("128", TRUE, Elem(<<"$", "7">>)) >>,
     price |-> Elem(<<"$", "7">>)],
    \* 4: an enabled variant whose price text is not a number
    [swatches |-> TRUE,
     buttons |-> << Button("128", FALSE, Elem(<<"$", "x">>)) >>,
     price |-> Elem(<<"$", "8">>)] >>

(***************************************************************************)
(* The product cards (.thumbnail) a listing can show.  title is the .title *)
(* element: "absent", "plain" (a title attribute, no href) or "link" (a    *)
(* title attribute and an href to detail page `href`).  Whether cards      *)
(* carry a review count is a property of the listing: CardIn gives the     *)
(* card of a kind as a listing with or without review counts shows it.     *)
(***************************************************************************)
Card(t, h, d, p, r, n) ==
    [title |-> t, href |-> h, description |-> d, price |-> p, rating |-> r,
     reviews |-> n]

PlainCard == Card("plain", 0, Elem(<<"d">>), Elem(<<"$", "2", "4">>),
                  Elem(<<"3">>), Elem(<<"1", "4", " ", "x">>))

CardKinds ==
    { PlainCard,
      [PlainCard EXCEPT !.title = "absent"],
      [PlainCard EXCEPT !.description = NoElem],
      [PlainCard EXCEPT !.price = NoElem],
      [PlainCard EXCEPT !.price = Elem(<<"$", "x">>)],
      [PlainCard EXCEPT !.rating = NoElem] }
    \cup { [PlainCard EXCEPT !.title = "link", !.href = p] :
             p \in 1..Len(DetailPages) }

CardIn(kind, reviews) ==
    IF reviews THEN kind ELSE [kind EXCEPT !.reviews = NoElem]

BannerStates == {"absent", "nobutton", "hidden", "showing"}

NoErr == [exc |-> "none", line |-> 0]
Exc(e, l) == [exc |-> e, line |-> l]


(***************************************************************************)
(* The render session as the code reads it.                                *)
(***************************************************************************)
Blank == [kind |-> "blank", id |-> 0]
ListingPage(s) == [kind |-> "listing", id |-> s]
DetailPage(p) == [kind |-> "detail", id |-> p]

\* the page behind a detail address; an address outside the catalogue
\* shows a page without a variant-selector block
PageAt(p) == IF p \in 1..Len(DetailPages) THEN DetailPages[p] ELSE DetailPages[1]

\* a snapshot that misses the first card of the page
AllButFirst ==
    IF cur.kind = "listing" THEN [i \in 1..(listing.count - 1) |-> i + 1]
    ELSE <<>>

\* BeautifulSoup(driver.page_source).select(".thumbnail"): the cards of the
\* page, by position
PageSource ==
    IF cur.kind = "listing" THEN [i \in 1..listing.count |-> i] ELSE <<>>

\* a probe that reports a reveal control whatever the page shows
AlwaysMore == TRUE

\* driver.find_elements(By.CLASS_NAME, "btn-more") is non-empty
MoreButton == cur.kind = "listing" /\ listing.more

\* driver.find_element(By.CLASS_NAME, "swatches") finds the block
HasSwatches == cur.kind = "detail" /\ PageAt(cur.id).swatches

\* swatches.find_elements(By.TAG_NAME, "button")
Buttons == IF cur.kind = "detail" THEN PageAt(cur.id).buttons ELSE <<>>

\* a resolver that only asks whether the title element exists
HasTitleElem(card) == card.title # "absent"

\* title_elem and "href" in title_elem.attrs
HasHref(card) == card.title = "link"

\* a loop that does not look at the disabled property
NeverDisabled(button) == FALSE

\* button.get_property("disabled")
IsDisabled(button) == button.disabled

\* a resolver that looks for the variant block right after driver.get
StraightToSwatches == "swatches"

\* line 82: what parse_hdd_block_prices does next after driver.get is the
\* call of close_cookie_banner
AfterNavigation == "ccb"

\* a listing as the browser shows it after driver.get(url): count cards
\* (cards holds those read so far), the reveal control present or not and,
\* when present, disabled or not, its cards with or without review counts;
\* init, k and clicked record how the listing came to its present size
NewListing(n, more, disabled, reviews) ==
    [count |-> n, cards |-> <<>>, more |-> more, disabled |-> disabled,
     reviews |-> reviews, init |-> n, k |-> 0, clicked |-> 0]

NoListing == NewListing(0, FALSE, FALSE, TRUE)

(***************************************************************************)
(* parse_single_product, lines 103-115, for the card at position i of the  *)
(* snapshot: which exception it raises, if any, and the record it builds.  *)
(* The title text of a card is its position in the DOM.                    *)
(***************************************************************************)
FieldsError(card) ==
    IF card.reviews.present /\ ~HasToken(card.reviews.text)
        THEN Exc("IndexError", 105)
    ELSE IF card.reviews.present /\ ~IsNumeric(FirstToken(card.reviews.text))
        THEN Exc("ValueError", 104)
    ELSE IF card.title = "absent" THEN Exc("TypeError", 109)
    ELSE IF ~card.description.present THEN Exc("AttributeError", 110)
    ELSE IF ~card.price.present THEN Exc("AttributeError", 111)
    ELSE IF ~IsNumeric(Replace(card.price.text, "$")) THEN Exc("ValueError", 111)
    ELSE IF ~card.rating.present THEN Exc("TypeError", 112)
    ELSE IF ~IsNumeric(card.rating.text) THEN Exc("ValueError", 112)
    ELSE NoErr

\* a record builder whose review count defaults to 1
ProductReviewsOne(i, card, hdd) ==
    [title |-> i,
     description |-> card.description.text,
     price |-> Number(Replace(card.price.text, "$")),
     rating |-> Number(card.rating.text),
     num_of_reviews |-> IF card.reviews.present
                        THEN Number(FirstToken(card.reviews.text)) ELSE 1,
     additional_info |-> [hdd_prices |-> hdd]]

Product(i, card, hdd) ==
    [title |-> i,
     description |-> card.description.text,
     price |-> Number(Replace(card.price.text, "$")),
     rating |-> Number(card.rating.text),
     num_of_reviews |-> IF card.reviews.present
                        THEN Number(FirstToken(card.reviews.text)) ELSE 0,
     additional_info |-> [hdd_prices |-> hdd]]

\* What parse_single_product makes of a card depends on the card alone:
\* its outcome and its record, computed once for every card there is
AllCards == {CardIn(kind, reviews) : kind \in CardKinds, reviews \in BOOLEAN}

FieldsErrorOf == [card \in AllCards |-> FieldsError(card)]

ProductOf ==
    [card \in {c \in AllCards : FieldsError(c) = NoErr} |->
        Product(0, card, EmptyMap)]

\* float(price_text.replace("$", "")) for the prices the detail pages
\* display: the texts it accepts, and its results
PriceTexts ==
    UNION { {DetailPages[p].buttons[b].price.text :
                b \in 1..Len(DetailPages[p].buttons)} :
            p \in 1..Len(DetailPages) }

NumericPrices == {text \in PriceTexts : IsNumeric(Replace(text, "$"))}

PriceOf == [text \in NumericPrices |-> Number(Replace(text, "$"))]

\* a reader that looks the card up on the page the browser shows now: on a
\* detail page there is no card, and so none of its elements
LiveCard(pos) ==
    IF cur.kind = "listing" THEN listing.cards[pos]
    ELSE CardIn([PlainCard EXCEPT !.title = "absent"], listing.reviews)

\* the card at a position of the snapshot (lines 125-126): the tree that
\* BeautifulSoup built from page_source holds the cards as the listing
\* showed them, whatever the browser shows now
SoupCard(pos) == listing.cards[pos]

\* a writer that opens one and the same file for every section
WriteOverPrevious(files, s) == <<SectionNames[s]>>

\* write_products_to_csv: the file of section s exists from now on (what is
\* in it, the CSV form of the records, is not modelled)
WriteProductsToCsv(files, s) == Append(files, SectionNames[s])

\* a main without the with statement: nothing quits the browser
NoExit(d) == d

\* the with statement of main leaves its block: Chrome.__exit__ quits
WithExit(d) == "quit"

(***************************************************************************)
(* Initial state: the module is loaded, main has not started.              *)
(***************************************************************************)
Init ==
    /\ pc = "main"
    /\ driver = "none"
    /\ cur = Blank
    /\ listing = NoListing
    /\ banner = "absent"
    /\ shown = NoElem
    /\ lastOp = "none"
    /\ sec = 1
    /\ visited = {}
    /\ completed = {}
    /\ sink = <<>>
    /\ products = <<>>
    /\ page_soup = <<>>
    /\ batch = <<>>
    /\ idx = 1
    /\ hdd_prices = EmptyMap
    /\ prices = EmptyMap
    /\ bi = 1
    /\ ret = "none"
    /\ err = NoErr

session == <<cur, listing, banner, shown, lastOp>>
locals == <<products, page_soup, batch, idx, hdd_prices, prices, bi, ret>>
progress == <<sec, visited, completed, sink>>

NoLocals ==
    /\ products' = <<>>
    /\ page_soup' = <<>>
    /\ batch' = <<>>
    /\ idx' = 1
    /\ hdd_prices' = EmptyMap
    /\ prices' = EmptyMap
    /\ bi' = 1
    /\ ret' = "none"

\* main leaves its with block: the browser is quit and shows no page any more
Quit ==
    /\ driver' = WithExit(driver)
    /\ cur' = Blank
    /\ listing' = NoListing
    /\ banner' = "absent"
    /\ shown' = NoElem
    /\ lastOp' = "quit"

\* an exception nothing catches: it unwinds every call, whose locals are
\* gone, and leaves the with block of main, which ends the run
Raise(e) ==
    /\ pc' = "terminated"
    /\ err' = e
    /\ NoLocals
    /\ Quit
    /\ UNCHANGED progress

(***************************************************************************)
(* main, lines 162-165                                                     *)
(***************************************************************************)
MainEnter ==
    /\ pc = "main"
    /\ driver' = "open"
    /\ pc' = "sections"
    /\ UNCHANGED <<session, locals, progress, err>>

MainExit ==
    /\ pc = "exit"
    /\ Quit
    /\ pc' = "terminated"
    /\ UNCHANGED <<locals, progress, err>>

(***************************************************************************)
(* get_all_products, lines 156-159, and the start of scrape_page, lines    *)
(* 130-131.  Iterate(s) is the loop at section s: scrape_page is called    *)
(* and navigates to the listing, whose content is yet to render; after     *)
(* the last section the loop ends and main leaves its with block.          *)
(***************************************************************************)
Iterate(s) ==
    IF s <= NumSections
    THEN /\ visited' = visited \cup {s}
         /\ cur' = ListingPage(s)
         /\ listing' = NoListing
         /\ banner' = "absent"
         /\ shown' = NoElem
         /\ lastOp' = "get"
         /\ pc' = "settle"
    ELSE /\ pc' = "exit"
         /\ UNCHANGED <<visited, session>>

NextSection ==
    /\ pc = "sections"
    /\ Iterate(sec)
    /\ UNCHANGED <<driver, locals, sec, completed, sink, err>>

\* line 159, then the next turn of the loop
WriteCsv ==
    /\ pc = "write"
    /\ sink' = WriteProductsToCsv(sink, sec)
    /\ sec' = sec + 1
    /\ products' = <<>>
    /\ Iterate(sec + 1)
    /\ UNCHANGED <<driver, page_soup, batch, idx, hdd_prices, prices, bi, ret,
                   completed, err>>

(***************************************************************************)
(* scrape_page, lines 132-146                                              *)
(***************************************************************************)
\* lines 132-134: the settle delay, during which the listing renders (its
\* cards, its reveal control, its cookie banner), and products = []
Settle ==
    /\ pc = "settle"
    /\ \E n \in 0..MaxInit, more, disabled, reviews \in BOOLEAN :
          /\ more => MaxReveals > 0
          /\ disabled => more
          /\ listing' = NewListing(n, more, disabled, reviews)
    /\ \E b \in BannerStates : banner' = b
    /\ products' = <<>>
    /\ pc' = "snapshot"
    /\ UNCHANGED <<driver, cur, shown, lastOp, page_soup, batch, idx,
                   hdd_prices, prices, bi, ret, progress, err>>

\* line 136 and the start of get_single_page_products, line 125
Snapshot ==
    /\ pc = "snapshot"
    /\ page_soup' = PageSource
    /\ batch' = <<>>
    /\ idx' = 1
    /\ lastOp' = "page_source"
    /\ pc' = IF PageSource = <<>> THEN "more" ELSE "product"
    /\ UNCHANGED <<driver, cur, listing, banner, shown, products, hdd_prices,
                   prices, bi, ret, progress, err>>

\* line 137 (extend) and lines 139-140, 143-146: look for the reveal
\* control; without one the loop ends and scrape_page returns products
ProbeMore ==
    /\ pc = "more"
    /\ products' = products \o batch
    /\ batch' = <<>>
    /\ page_soup' = <<>>
    /\ idx' = 1
    /\ lastOp' = "find_elements"
    /\ IF MoreButton
       THEN pc' = "reveal" /\ UNCHANGED completed
       ELSE pc' = "write" /\ completed' = completed \cup {sec}
    /\ UNCHANGED <<driver, cur, listing, banner, shown, hdd_prices, prices,
                   bi, ret, sec, visited, sink, err>>

\* lines 141-142: more_button[0].click() and the settle delay.  The code
\* clicks whatever control it found, disabled or not.  The click on an
\* enabled control appends k cards to the listing, the click on a disabled
\* one appends none; either way the page shows its control, or none, when
\* the delay is over.  The browser may instead refuse the click because
\* another element covers the control.  The control is gone after
\* MaxReveals clicks at the latest.
ClickMore ==
    /\ pc = "reveal"
    /\ listing.clicked < MaxReveals
    /\ \/ /\ \E k \in 0..MaxK, more, disabled \in BOOLEAN :
               /\ k = 0 <=> listing.disabled
               /\ k > 0 => listing.k \in {0, k}
               /\ more => listing.clicked + 1 < MaxReveals
               /\ disabled => more
               /\ listing' = [listing EXCEPT !.count = @ + k,
                                             !.more = more,
                                             !.disabled = disabled,
                                             !.k = IF k > 0 THEN k ELSE @,
                                             !.clicked = @ + 1]
          /\ lastOp' = "click"
          /\ pc' = "snapshot"
          /\ UNCHANGED <<driver, cur, banner, shown, locals, progress, err>>
       \/ Raise(Exc("ElementClickInterceptedException", 141))

(***************************************************************************)
(* parse_hdd_block_prices, lines 73-97, called first thing by              *)
(* parse_single_product (line 101) for the card at idx of the snapshot     *)
(***************************************************************************)
\* lines 74-82: no address on the title element: return {} at once;
\* otherwise driver.get(detailed_url) and the call of close_cookie_banner
ParseHdd ==
    /\ pc = "product"
    /\ \E card \in {CardIn(kind, listing.reviews) : kind \in CardKinds} :
         /\ page_soup[idx] <= Len(listing.cards) => card = listing.cards[page_soup[idx]]
         /\ listing' = IF page_soup[idx] <= Len(listing.cards) THEN listing
                       ELSE [listing EXCEPT !.cards = Append(@, card)]
         /\ IF HasHref(card)
            THEN /\ cur' = DetailPage(card.href)
                 /\ \E b \in BannerStates : banner' = b
                 /\ shown' = PageAt(card.href).price
                 /\ lastOp' = "get"
                 /\ pc' = AfterNavigation
                 /\ ret' = "swatches"
                 /\ UNCHANGED hdd_prices
            ELSE /\ hdd_prices' = EmptyMap
                 /\ pc' = "fields"
                 /\ UNCHANGED <<cur, banner, shown, lastOp, ret>>
    /\ UNCHANGED <<driver, products, page_soup, batch, idx, prices, bi,
                   progress, err>>

\* lines 84-86: prices = {}, the swatches block and its buttons
FindSwatches ==
    /\ pc = "swatches"
    /\ IF HasSwatches
       THEN /\ prices' = EmptyMap
            /\ bi' = 1
            /\ pc' = "button"
            /\ lastOp' = "find_elements"
            /\ UNCHANGED <<driver, cur, listing, banner, shown, products,
                           page_soup, batch, idx, hdd_prices, ret, progress,
                           err>>
       ELSE Raise(Exc("NoSuchElementException", 85))

\* lines 94-96 after a click that went through: the page displays the
\* price of the activated button; it is read, parsed and stored under the
\* button's value
ReadPrice ==
    IF ~Buttons[bi].price.present
    THEN Raise(Exc("NoSuchElementException", 94))
    ELSE IF Buttons[bi].price.text \notin NumericPrices
    THEN Raise(Exc("ValueError", 94))
    ELSE /\ shown' = Buttons[bi].price
         /\ lastOp' = "find_element"
         /\ prices' = [v \in DOMAIN prices \cup {Buttons[bi].value} |->
                         IF v = Buttons[bi].value
                         THEN PriceOf[shown'.text]
                         ELSE prices[v]]
         /\ bi' = bi + 1
         /\ pc' = "button"
         /\ UNCHANGED <<driver, cur, listing, banner, products, page_soup,
                        batch, idx, hdd_prices, ret, progress, err>>

\* lines 87-97, one turn of the loop over the buttons: a disabled button is
\* skipped; an enabled one is clicked (line 90) and its price read.  When
\* the browser reports that another element would receive the click,
\* close_cookie_banner is called (lines 91-92); what covers the button is
\* the browser's, so the banner is in any state then.  After the last
\* button prices is returned.
NextButton ==
    /\ pc = "button"
    /\ IF bi > Len(Buttons)
       THEN /\ hdd_prices' = prices
            /\ prices' = EmptyMap
            /\ bi' = 1
            /\ ret' = "none"
            /\ pc' = "fields"
            /\ UNCHANGED <<driver, session, products, page_soup, batch, idx,
                           progress, err>>
       ELSE IF IsDisabled(Buttons[bi])
       THEN /\ bi' = bi + 1
            /\ UNCHANGED <<pc, driver, session, products, page_soup, batch,
                           idx, hdd_prices, prices, ret, progress, err>>
       ELSE \/ ReadPrice
            \/ /\ \E b \in BannerStates : banner' = b
               /\ lastOp' = "click"
               /\ pc' = "ccb"
               /\ ret' = "retry"
               /\ UNCHANGED <<driver, cur, listing, shown, products,
                              page_soup, batch, idx, hdd_prices, prices, bi,
                              progress, err>>

\* line 93: the second button.click(), outside the try, and lines 94-96
RetryClick ==
    /\ pc = "retry"
    /\ \/ ReadPrice
       \/ Raise(Exc("ElementClickInterceptedException", 93))

(***************************************************************************)
(* close_cookie_banner, lines 52-70.  Only NoSuchElementException and      *)
(* ElementNotInteractableException are caught; the TimeoutException of a   *)
(* WebDriverWait that runs out is neither.  The banner is "absent" (not in *)
(* the DOM), "nobutton" (there, without a button), "hidden" (there with    *)
(* its button, never clickable) or "showing"; the scripted click on the    *)
(* button of a showing banner hides it.                                    *)
(***************************************************************************)
CookieBannerOutcome(b) ==
    CASE b = "absent" -> Exc("TimeoutException", 55)        \* never present
      [] b = "nobutton" -> NoErr                            \* line 60, caught
      [] b = "hidden" -> Exc("TimeoutException", 63)        \* never clickable
      [] b = "showing" -> NoErr                             \* line 67 clicks it

CloseCookieBanner ==
    /\ pc = "ccb"
    /\ IF CookieBannerOutcome(banner) # NoErr
       THEN Raise(CookieBannerOutcome(banner))
       ELSE /\ pc' = ret
            /\ IF banner = "showing"
               THEN /\ banner' = "hidden"
                    /\ lastOp' = "execute_script"
               ELSE /\ lastOp' = "find_element"
                    /\ UNCHANGED banner
            /\ UNCHANGED <<driver, cur, listing, shown, locals, progress, err>>

(***************************************************************************)
(* parse_single_product, lines 103-115, and the next card of the pass      *)
(***************************************************************************)
ParseFields ==
    /\ pc = "fields"
    /\ LET card == SoupCard(page_soup[idx]) IN
       IF FieldsErrorOf[card] # NoErr
       THEN Raise(FieldsErrorOf[card])
       ELSE /\ batch' = Append(batch,
                          [ProductOf[card] EXCEPT
                              !.title = page_soup[idx],
                              !.additional_info.hdd_prices = hdd_prices])
            /\ hdd_prices' = EmptyMap
            /\ idx' = idx + 1
            /\ pc' = IF idx < Len(page_soup) THEN "product" ELSE "more"
            /\ UNCHANGED <<driver, session, products, page_soup, prices, bi,
                           ret, progress, err>>

Next ==
    \/ MainEnter
    \/ NextSection
    \/ Settle
    \/ Snapshot
    \/ ParseHdd
    \/ CloseCookieBanner
    \/ FindSwatches
    \/ NextButton
    \/ RetryClick
    \/ ParseFields
    \/ ProbeMore
    \/ ClickMore
    \/ WriteCsv
    \/ MainExit

Spec == Init /\ [][Next]_vars

\* every step of the program returns: the interpreter keeps running it
FairSpec == Spec /\ WF_vars(Next)

(***************************************************************************)
(* Properties                                                              *)
(***************************************************************************)
Titles(recs) == [i \in 1..Len(recs) |-> recs[i].title]
NoDuplicates(seq) ==
    \A i, j \in 1..Len(seq) : i # j => seq[i] # seq[j]
InSink(s) == \E i \in 1..Len(sink) : sink[i] = SectionNames[s]

\* the card parse_single_product is working on, once it has been read
CurrentCard == listing.cards[page_soup[idx]]

\* values of the buttons among the first n that are not marked disabled
EnabledValues(n) ==
    {Buttons[i].value : i \in {j \in 1..n : j <= Len(Buttons) /\ ~Buttons[j].disabled}}

\* C1: when the reveal control was activated N times and each activation
\* appended exactly K cards, scrape_page returns initial_count + N*K records
\* and no card occurs twice among them.
C1_NoCardExtractedTwice ==
    (pc = "write" /\ listing.k > 0
        /\ listing.count = listing.init + listing.clicked * listing.k) =>
        /\ Len(products) = listing.init + listing.clicked * listing.k
        /\ NoDuplicates(Titles(products))

\* C2: a listing of 3 cards whose reveal control, activated once, adds 2
\* cards and disappears gives exactly 5 records, in DOM order.
C2_FiveRecordsInDomOrder ==
    (pc = "write" /\ listing.init = 3 /\ listing.clicked = 1 /\ listing.k = 2
        /\ ~listing.more)
    => Titles(products) = <<1, 2, 3, 4, 5>>

\* C3: close_cookie_banner never fails its caller: whatever the state of the
\* banner, the call returns to where it was called from and no exception
\* propagates.
C3_BannerNeverFailsCaller ==
    [][pc = "ccb" => (pc' = ret /\ err' = NoErr)]_vars

\* C4: when the traversal of one section fails, the remaining sections are
\* still traversed and the results of those that complete reach the sink:
\* the run never ends with a section not traversed.
C4_FailureIsolatedPerSection ==
    pc = "terminated" =>
        /\ visited = 1..NumSections
        /\ \A s \in completed : InSink(s)

\* C5: the file of a section whose traversal completed is written before
\* the traversal of a later section starts, so it exists when a later
\* section fails.
C5_ArtifactBeforeNextSection ==
    \A s \in completed :
        /\ (\E t \in visited : t > s) => InSink(s)
        /\ err # NoErr => InSink(s)

C5_Witness ==
    /\ pc = "terminated"
    /\ err # NoErr
    /\ 1 \in completed
    /\ 2 \in visited
    /\ InSink(1)

\* C6: the session is created once and torn down once, in that order; it is
\* always eventually released, after a failure as after a complete run; and
\* no operation changes the session before it is created or after it is
\* torn down.
C6_SessionLifecycle ==
    /\ [][driver' # driver =>
            \/ (driver = "none" /\ driver' = "open")
            \/ (driver = "open" /\ driver' = "quit")]_vars
    /\ [][session' # session => driver = "open"]_vars
    /\ <>(driver = "quit")

C6_Witness ==
    /\ pc = "terminated"
    /\ driver = "quit"
    /\ err # NoErr
    /\ lastOp = "quit"
    /\ sink # <<>>

\* C7: the keys of the mapping parse_hdd_block_prices returns are exactly
\* the values of the buttons not marked disabled (and so are the keys
\* collected while the loop runs, for the buttons handled so far); with one
\* disabled and two enabled buttons that is exactly two keys.
C7_KeysAreEnabledValues ==
    /\ pc \in {"button", "retry"} => DOMAIN prices = EnabledValues(bi - 1)
    /\ (pc = "ccb" /\ ret = "retry") => DOMAIN prices = EnabledValues(bi - 1)
    /\ (pc = "fields" /\ CurrentCard.title = "link") =>
         /\ DOMAIN hdd_prices = EnabledValues(Len(Buttons))
         /\ ( /\ Cardinality({i \in 1..Len(Buttons) : Buttons[i].disabled}) = 1
              /\ Cardinality({i \in 1..Len(Buttons) : ~Buttons[i].disabled}) = 2 )
            => Cardinality(DOMAIN hdd_prices) = 2

C7_Witness ==
    /\ pc = "fields"
    /\ CurrentCard.title = "link"
    /\ Len(Buttons) = 3
    /\ Buttons[2].disabled
    /\ DOMAIN hdd_prices = {"128", "512"}

\* C8: an intercepted activation is followed by one dismissal of the overlay
\* and then exactly one retry; a retry intercepted again fails the product
\* and records no price under the variant's value; a price is recorded only
\* in a step in which the variant was activated, the page then displaying
\* that variant's price.
C8_DismissThenRetryOnce ==
    [][ /\ (pc = "ccb" /\ ret = "retry") => pc' = "retry"
        /\ pc = "retry" =>
             \/ pc' = "button" /\ bi' = bi + 1
             \/ err' # NoErr /\ Buttons[bi].value \notin DOMAIN prices'
        /\ (prices' # prices /\ prices' # EmptyMap) =>
             /\ pc \in {"button", "retry"}
             /\ shown' = Buttons[bi].price
             /\ DOMAIN prices' = DOMAIN prices \cup {Buttons[bi].value} ]_vars

\* C9: the hdd_prices of a record is empty exactly when the detail page of
\* its card has no variant-selector block, and a detail page without the
\* block gives a record, not an error.
C9_EmptyIffNoVariantBlock ==
    /\ \A r \in {batch[i] : i \in 1..Len(batch)} \cup {products[i] : i \in 1..Len(products)} :
          LET card == listing.cards[r.title]
          IN  (r.additional_info.hdd_prices = EmptyMap)
              <=> (card.title # "link" \/ ~PageAt(card.href).swatches)
    /\ err # Exc("NoSuchElementException", 85)

\* C10: for a card whose title element is absent or has no href,
\* parse_hdd_block_prices returns the empty mapping at once and issues no
\* operation on the session: the page, its banner, its displayed price, the
\* listing and the last operation are what they were.
C10_NoLinkLeavesSession ==
    [][ (pc = "product" /\ listing'.cards[page_soup[idx]].title # "link") =>
          /\ pc' = "fields"
          /\ hdd_prices' = EmptyMap
          /\ <<cur, banner, shown, lastOp>>' = <<cur, banner, shown, lastOp>>
          /\ [listing' EXCEPT !.cards = <<>>] = [listing EXCEPT !.cards = <<>>]
          /\ err' = NoErr ]_vars

C10_Witness ==
    /\ pc = "fields"
    /\ CurrentCard.title = "absent"
    /\ hdd_prices = EmptyMap
    /\ idx > 1
    /\ cur.kind = "detail"

\* C11: on a section whose listing shows no reveal control, scrape_page makes
\* exactly one extracting pass and returns one record for each card visible
\* after the initial load, in their order; a further pass is only ever
\* started off a reveal control that was found.
C11_OnePassWithoutControl ==
    /\ []((pc = "write" /\ ~listing.more /\ listing.clicked = 0) =>
            /\ listing.count = listing.init
            /\ Titles(products) = [i \in 1..listing.init |-> i])
    /\ [][(pc' = "snapshot" /\ pc # "settle") =>
            (pc = "reveal" /\ listing.more)]_vars

C11_Witness ==
    /\ pc = "write"
    /\ ~listing.more
    /\ listing.clicked = 0
    /\ Len(products) >= 2
    /\ cur.kind = "detail"

\* a card lacks its title, description, price or rating, or its price text
\* is not a number
Malformed(card) ==
    \/ card.title = "absent"
    \/ ~card.description.present
    \/ ~card.price.present
    \/ ~card.rating.present
    \/ ~IsNumeric(Replace(card.price.text, "$"))

\* C12: the extraction of a card that lacks a required field, or whose price
\* text is not a number, fails, and the failure ends the traversal of the
\* section: scrape_page returns nothing for it (the section is not completed,
\* nothing is written); scrape_page returns only when no card it read was
\* such a card; and a record made from a card without a review count has
\* num_of_reviews = 0.
C12_MalformedCardAbortsSection ==
    /\ [][(pc = "fields" /\ Malformed(CurrentCard)) =>
            /\ err' # NoErr
            /\ pc' # "write"
            /\ sec \notin completed'
            /\ sink' = sink]_vars
    /\ [](pc = "write" =>
            \A i \in 1..Len(listing.cards) : ~Malformed(listing.cards[i]))
    /\ [](\A i \in 1..Len(batch) :
            ~listing.cards[batch[i].title].reviews.present
                => batch[i].num_of_reviews = 0)
    /\ [](\A i \in 1..Len(products) :
            ~listing.cards[products[i].title].reviews.present
                => products[i].num_of_reviews = 0)

C12_Witness ==
    /\ pc = "terminated"
    /\ err = Exc("AttributeError", 110)
    /\ completed = {1}
    /\ visited = {1, 2}
    /\ Len(sink) = 1

\* C13: whenever scrape_page is about to take a snapshot (line 136) or to look
\* for the reveal control (line 139), the page the browser shows is the
\* listing of the section being traversed.
C13_ListingCurrentAtSnapshotAndProbe ==
    pc \in {"snapshot", "more"} => cur = ListingPage(sec)

\* the session operations close_cookie_banner ends with: the scripted click
\* on the banner's button (line 67) or the lookup that found none (line 58)
DismissalOps == {"execute_script", "find_element"}

\* C14: before its first snapshot scrape_page navigates to the listing,
\* dismisses the overlay and waits the settle delay, in this order: when the
\* first snapshot is about to be taken, the last thing done with the session
\* is the dismissal, which followed the navigation.
C14_DismissalBeforeFirstSnapshot ==
    (pc = "snapshot" /\ listing.clicked = 0) => lastOp \in DismissalOps

\* C15: scrape_page clicks the reveal control only when the control is there
\* and enabled, and the next snapshot is taken after the settle delay that
\* follows the click: a control that is present but disabled is never clicked.
C15_RevealOnlyWhenEnabled ==
    [][(pc = "reveal" /\ lastOp' = "click") =>
            /\ listing.more
            /\ ~listing.disabled
            /\ pc' = "snapshot"]_vars

\* C16: in parse_hdd_block_prices every navigation to a detail page is
\* followed by the call of close_cookie_banner; the variant block is looked
\* up only after that call has returned, and buttons are only activated
\* after the block was looked up.  This holds for every card of a pass.
C16_DismissalAfterEveryNavigation ==
    /\ [][(pc = "product" /\ lastOp' = "get") =>
            (pc' = "ccb" /\ ret' = "swatches")]_vars
    /\ [](pc = "swatches" => lastOp \in DismissalOps)
    /\ [][(pc' = "button" /\ pc \notin {"button", "retry"}) =>
            pc = "swatches"]_vars

C16_Witness ==
    /\ pc = "swatches"
    /\ idx > 1
    /\ listing.cards[page_soup[1]].title = "link"
    /\ cur.kind = "detail"
    /\ lastOp \in DismissalOps

\* C17: every call of scrape_page eventually ends: once it has navigated to
\* the listing of a section it returns its records (the section is
\* completed and its records are about to be written) unless an operation
\* on the session failed.  The reveal control of a listing is gone after
\* MaxReveals activations at the latest.
C17_SectionTraversalEnds ==
    (pc = "settle") ~> ((pc = "write" /\ sec \in completed) \/ err # NoErr)

C17_Witness ==
    /\ pc = "write"
    /\ sec \in completed
    /\ listing.clicked = MaxReveals
    /\ ~listing.more
    /\ Len(products) > listing.count
    /\ err = NoErr

\* the fields of a record that come from the listing
ListingFields(r) ==
    [title |-> r.title, description |-> r.description, price |-> r.price,
     rating |-> r.rating, num_of_reviews |-> r.num_of_reviews]

\* the record of the card at position pos of the listing, without variants
RecordOf(pos) == [ProductOf[listing.cards[pos]] EXCEPT !.title = pos]

\* C18: within a pass the records are made from the snapshot taken at its
\* start: the i-th record of the pass carries the listing fields of the i-th
\* card of the snapshot, also after the resolver navigated the browser away
\* for an earlier card; a navigation changes neither the snapshot nor the
\* records made so far; and a well-formed card yields its record whatever
\* page the browser shows.
C18_RecordsFromStaticSnapshot ==
    /\ [](pc \in {"product", "ccb", "swatches", "button", "retry", "fields",
                  "more"} =>
            /\ Len(batch) = idx - 1
            /\ \A i \in 1..Len(batch) :
                  ListingFields(batch[i]) = ListingFields(RecordOf(page_soup[i])))
    /\ [][(pc = "product" /\ lastOp' = "get") =>
            (batch' = batch /\ page_soup' = page_soup /\ idx' = idx)]_vars
    /\ [][(pc = "fields" /\ ~Malformed(CurrentCard)) =>
            /\ Len(batch') = Len(batch) + 1
            /\ ListingFields(batch'[idx]) = ListingFields(RecordOf(page_soup[idx]))
            /\ page_soup' = page_soup]_vars

C18_Witness ==
    /\ pc = "more"
    /\ Len(batch) = 3
    /\ listing.cards[page_soup[1]].title = "link"
    /\ listing.cards[page_soup[2]].title = "plain"
    /\ listing.cards[page_soup[3]].title = "link"
    /\ cur.kind = "detail"
    /\ Titles(batch) = <<1, 2, 3>>

====
